---------------------------- MODULE Spec2Model ----------------------------
(***************************************************************************)
(* Dawn Patrol (app.js): the scoring engine and the data-loading run.      *)
(*                                                                         *)
(* Representation.                                                         *)
(*  - A JavaScript value read out of a JSON payload is a record            *)
(*    [t |-> "num" | "null" | "undef" | "nan", v |-> Int]: a number, a     *)
(*    JSON null, undefined (a read past the end of an array) or NaN.       *)
(*  - Wave and swell heights are held in tenths of a foot (32 is 3.2 ft);  *)
(*    every other quantity is a whole number in the unit of the payload.   *)
(*  - A timestamp is the number of hours since local midnight of day 0;    *)
(*    a calendar date is a day number.                                     *)
(*  - A payload is [src |-> run, hourly |-> h], h a function from the      *)
(*    names of the arrays that are present to sequences; a dataset that    *)
(*    is null is [null |-> TRUE].  src is a history field: the run whose   *)
(*    fetch returned the payload (0 outside a run).                        *)
(*  - A call that throws returns [threw |-> TRUE].                         *)
(***************************************************************************)
EXTENDS Integers, Sequences, FiniteSets, TLC

VARIABLES
    today,      \* the local calendar day of "now" (new Date())
    call,       \* a pending call of one pure function: its name and arguments
    ret,        \* what that call returned
    state,      \* the module-level state object (app.js, let state = ...)
    display,    \* which of the panels loading / error / content is shown
    errors,     \* the messages showError has written, in order
    runs        \* the loadAllData runs: position and the five fetches of each

vars == <<today, call, ret, state, display, errors, runs>>

---------------------------------------------------------------------------
\* Bounds of the model.

\* Longest hourly time series enumerated for getMorningHourIndex.
MaxLen == 3
\* Number of loadAllData runs that may be started.
MaxRuns == 2
\* Wind directions from -MaxDir to MaxDir degrees are enumerated.
MaxDir == 725
\* Wave heights up to MaxHeight tenths of a foot are swept.
MaxHeight == 120

---------------------------------------------------------------------------
\* JavaScript values and the operators the code applies to them.

JNum(n) == [t |-> "num", v |-> n]
JNull == [t |-> "null", v |-> 0]
JUndef == [t |-> "undef", v |-> 0]
JNaN == [t |-> "nan", v |-> 0]

\* ToNumber: null is 0, undefined is NaN.
ToNumber(x) == IF x.t = "null" THEN JNum(0) ELSE IF x.t = "num" THEN x ELSE JNaN

\* ToBoolean: 0, NaN, null and undefined are falsy.
Truthy(x) == x.t = "num" /\ x.v # 0

\* a || b
OrElse(a, b) == IF Truthy(a) THEN a ELSE b

\* Relational operators against a number: false as soon as one side is NaN.
Lt(x, n) == ToNumber(x).t = "num" /\ ToNumber(x).v < n
Le(x, n) == ToNumber(x).t = "num" /\ ToNumber(x).v <= n
Gt(x, n) == ToNumber(x).t = "num" /\ ToNumber(x).v > n
Ge(x, n) == ToNumber(x).t = "num" /\ ToNumber(x).v >= n

\* arr[i] for a 0-based index i: undefined outside the array.
Index(arr, i) == IF i + 1 \in DOMAIN arr THEN arr[i + 1] ELSE JUndef

\* a % b of JavaScript for b > 0: the remainder has the sign of a.
JsRem(a, b) == IF a >= 0 THEN a % b ELSE -((-a) % b)

\* Math.round of n/d for d > 0: the nearest integer, halves towards +infinity.
RoundDiv(n, d) == (2 * n + d) \div (2 * d)

Thrown == [threw |-> TRUE]
NullData == [null |-> TRUE]
IsNull(d) == "null" \in DOMAIN d

---------------------------------------------------------------------------
\* Configuration (CONFIG).

morningStartHour == 6
morningEndHour == 9

---------------------------------------------------------------------------
\* Utility functions.

\* getFullYear/getMonth/getDate of a timestamp, as formatLocalDate prints them:
\* the local calendar day.
formatLocalDate(time) == time \div 24

\* Date.prototype.getHours: the local hour of the day.
getHours(time) == time % 24

getTomorrowDate == formatLocalDate(today * 24) + 1

directions ==
    <<"N", "NNE", "NE", "ENE", "E", "ESE", "SE", "SSE",
      "S", "SSW", "SW", "WSW", "W", "WNW", "NW", "NNW">>

\* Math.round(degrees / 22.5) % 16, for degrees >= 0.
degreesToCardinal(degrees) == directions[(RoundDiv(2 * degrees, 45) % 16) + 1]

IsMorning(time, targetDate) ==
    /\ formatLocalDate(time) = targetDate
    /\ getHours(time) >= morningStartHour
    /\ getHours(time) <= morningEndHour

\* The loop of getMorningHourIndex from position i (0-based) on.
RECURSIVE ScanFrom(_, _, _)
ScanFrom(hourlyTimes, targetDate, i) ==
    IF i >= Len(hourlyTimes) THEN -1
    ELSE IF IsMorning(hourlyTimes[i + 1], targetDate) THEN i
    ELSE ScanFrom(hourlyTimes, targetDate, i + 1)

\* The same loop with the upper hour bound exclusive.
RECURSIVE ScanFromExclusiveEnd(_, _, _)
ScanFromExclusiveEnd(hourlyTimes, targetDate, i) ==
    IF i >= Len(hourlyTimes) THEN -1
    ELSE IF /\ formatLocalDate(hourlyTimes[i + 1]) = targetDate
            /\ getHours(hourlyTimes[i + 1]) >= morningStartHour
            /\ getHours(hourlyTimes[i + 1]) < morningEndHour
         THEN i
    ELSE ScanFromExclusiveEnd(hourlyTimes, targetDate, i + 1)

getMorningHourIndexExclusiveEnd(hourlyTimes, targetDate) ==
    ScanFromExclusiveEnd(hourlyTimes, targetDate, 0)

getMorningHourIndex(hourlyTimes, targetDate) == ScanFrom(hourlyTimes, targetDate, 0)

---------------------------------------------------------------------------
\* Scoring functions.

Has(obj, field) == field \in DOMAIN obj

\* obj.field || []
ArrayOrEmpty(obj, field) == IF Has(obj, field) THEN obj[field] ELSE <<>>

\* The height bands with their upper bounds inclusive.
HeightScoreInclusive(waveHeight) ==
    IF waveHeight <= 10 THEN 1
    ELSE IF waveHeight <= 20 THEN 3
    ELSE IF waveHeight <= 30 THEN 5
    ELSE IF waveHeight <= 40 THEN 7
    ELSE IF waveHeight <= 50 THEN 9
    ELSE IF waveHeight <= 60 THEN 10
    ELSE IF waveHeight <= 80 THEN 8
    ELSE 6

\* Wave height sub-score; waveHeight in tenths of a foot.
HeightScore(waveHeight) ==
    IF waveHeight < 10 THEN 1
    ELSE IF waveHeight < 20 THEN 3
    ELSE IF waveHeight < 30 THEN 5
    ELSE IF waveHeight < 40 THEN 7
    ELSE IF waveHeight < 50 THEN 9
    ELSE IF waveHeight < 60 THEN 10
    ELSE IF waveHeight < 80 THEN 8
    ELSE 6

\* The period bands with their upper bounds inclusive.
PeriodScoreInclusive(period) ==
    IF period <= 5 THEN 2
    ELSE IF period <= 7 THEN 4
    ELSE IF period <= 9 THEN 6
    ELSE IF period <= 11 THEN 8
    ELSE 10

PeriodScore(period) ==
    IF period < 5 THEN 2
    ELSE IF period < 7 THEN 4
    ELSE IF period < 9 THEN 6
    ELSE IF period < 11 THEN 8
    ELSE 10

\* The wind sub-score of the surf scorer from the two values read.
SurfWindBand(windSpeed, windDir) ==
    LET isOffshore == windDir >= 250 /\ windDir <= 320
        isLightWind == windSpeed < 8
    IN  IF isOffshore /\ isLightWind THEN 10
        ELSE IF isOffshore THEN 8
        ELSE IF isLightWind THEN 7
        ELSE IF windSpeed < 15 THEN 4
        ELSE 2

\* The wind block of calculateSurfScore: [threw, windScore].
SurfWindScore(weatherData, tomorrow) ==
    IF IsNull(weatherData) \/ ~Has(weatherData, "hourly")
    THEN [threw |-> FALSE, windScore |-> 5]
    ELSE IF ~Has(weatherData.hourly, "time") THEN Thrown
    ELSE LET wxIndex == getMorningHourIndex(weatherData.hourly.time, tomorrow) IN
         IF wxIndex = -1 THEN [threw |-> FALSE, windScore |-> 5]
         ELSE IF ~Has(weatherData.hourly, "wind_speed_10m") THEN Thrown
         ELSE IF ~Has(weatherData.hourly, "wind_direction_10m") THEN Thrown
         ELSE LET windSpeed ==
                      OrElse(Index(weatherData.hourly.wind_speed_10m, wxIndex), JNum(0)).v
                  windDir ==
                      OrElse(Index(weatherData.hourly.wind_direction_10m, wxIndex), JNum(0)).v
              IN  [threw |-> FALSE, windScore |-> SurfWindBand(windSpeed, windDir)]

\* The weighted sum truncated (Math.floor) instead of rounded.
WeightedFloor(a, b, c) == (4 * a + 3 * b + 3 * c) \div 10

\* Math.round(a * 0.4 + b * 0.3 + c * 0.3).  On the values the sub-score
\* tables produce, the double-precision sum rounds as the exact sum does.
WeightedRound(a, b, c) == RoundDiv(4 * a + 3 * b + 3 * c, 10)

\* Math.min(10, Math.max(1, finalScore))
Clamp(finalScore) ==
    IF finalScore < 1 THEN 1 ELSE IF finalScore > 10 THEN 10 ELSE finalScore

\* waveHeights[morningIndex] || 0: the height the sub-score and the result use.
SurfWaveHeight(waveHeights, morningIndex) ==
    OrElse(Index(waveHeights, morningIndex), JNum(0)).v

\* swellHeights[morningIndex] || waveHeight: computed and never read again.
SurfSwellHeight(waveHeights, swellHeights, morningIndex) ==
    OrElse(Index(swellHeights, morningIndex),
           JNum(SurfWaveHeight(waveHeights, morningIndex))).v

\* swellPeriods[morningIndex] || wavePeriods[morningIndex] || 0
SurfPeriod(wavePeriods, swellPeriods, morningIndex) ==
    OrElse(OrElse(Index(swellPeriods, morningIndex), Index(wavePeriods, morningIndex)),
           JNum(0)).v

calculateSurfScore(marineData, weatherData) ==
    IF IsNull(marineData) \/ ~Has(marineData, "hourly")
    THEN [threw |-> FALSE, score |-> 0, details |-> [text |-> "No data available"]]
    ELSE IF ~Has(marineData.hourly, "time") THEN Thrown
    ELSE
    LET tomorrow == getTomorrowDate
        hourly == marineData.hourly
        times == hourly.time
        waveHeights == ArrayOrEmpty(hourly, "wave_height")
        wavePeriods == ArrayOrEmpty(hourly, "wave_period")
        waveDirections == ArrayOrEmpty(hourly, "wave_direction")
        swellHeights == ArrayOrEmpty(hourly, "swell_wave_height")
        swellPeriods == ArrayOrEmpty(hourly, "swell_wave_period")
        swellDirections == ArrayOrEmpty(hourly, "swell_wave_direction")
        morningIndex == ScanFrom(times, tomorrow, 0)
    IN
    IF morningIndex = -1
    THEN [threw |-> FALSE, score |-> 0, details |-> [text |-> "No forecast data"]]
    ELSE
    LET waveHeight == SurfWaveHeight(waveHeights, morningIndex)
        period == SurfPeriod(wavePeriods, swellPeriods, morningIndex)
        direction ==
            OrElse(OrElse(Index(swellDirections, morningIndex),
                          Index(waveDirections, morningIndex)), JNum(0)).v
        heightScore == HeightScore(waveHeight)
        periodScore == PeriodScore(period)
        wind == SurfWindScore(weatherData, tomorrow)
    IN
    IF wind.threw THEN Thrown
    ELSE
    LET finalScore == WeightedRound(heightScore, periodScore, wind.windScore) IN
    [threw |-> FALSE,
     score |-> Clamp(finalScore),
     waveHeight |-> waveHeight,
     details |-> [height |-> waveHeight,
                  period |-> IF period > 0 THEN period ELSE -1,
                  dir |-> degreesToCardinal(direction)],
     period |-> period,
     direction |-> direction,
     heightScore |-> heightScore,
     periodScore |-> periodScore,
     windScore |-> wind.windScore]

\* The bands with the good band's bonus divided by 10 instead of 20.
PhotoBandDivTen(cloudCover) ==
    IF Ge(cloudCover, 20) /\ Le(cloudCover, 60)
    THEN LET c == ToNumber(cloudCover).v
             dist == IF c - 40 >= 0 THEN c - 40 ELSE 40 - c
         IN  [score |-> 8 + RoundDiv(40 - dist, 10),
              verdict |-> "Good cloud cover for colorful sunrise"]
    ELSE IF Ge(cloudCover, 10) /\ Lt(cloudCover, 20)
    THEN [score |-> 6, verdict |-> "Light clouds - some color potential"]
    ELSE IF Gt(cloudCover, 60) /\ Le(cloudCover, 80)
    THEN [score |-> 5, verdict |-> "Heavy clouds - may get some color"]
    ELSE IF Lt(cloudCover, 10)
    THEN [score |-> 4, verdict |-> "Clear sky - pretty but no cloud color"]
    ELSE [score |-> 2, verdict |-> "Overcast - unlikely to see color"]

\* The bands with the good band open at both ends (20 < c < 60).
PhotoBandOpenEdges(cloudCover) ==
    IF Gt(cloudCover, 20) /\ Lt(cloudCover, 60)
    THEN LET c == ToNumber(cloudCover).v
             dist == IF c - 40 >= 0 THEN c - 40 ELSE 40 - c
         IN  [score |-> 8 + RoundDiv(40 - dist, 20),
              verdict |-> "Good cloud cover for colorful sunrise"]
    ELSE IF Ge(cloudCover, 10) /\ Lt(cloudCover, 20)
    THEN [score |-> 6, verdict |-> "Light clouds - some color potential"]
    ELSE IF Gt(cloudCover, 60) /\ Le(cloudCover, 80)
    THEN [score |-> 5, verdict |-> "Heavy clouds - may get some color"]
    ELSE IF Lt(cloudCover, 10)
    THEN [score |-> 4, verdict |-> "Clear sky - pretty but no cloud color"]
    ELSE [score |-> 2, verdict |-> "Overcast - unlikely to see color"]

\* The cloud-cover bands of calculatePhotoScore: [score, verdict].
PhotoBand(cloudCover) ==
    IF Ge(cloudCover, 20) /\ Le(cloudCover, 60)
    THEN LET c == ToNumber(cloudCover).v
             dist == IF c - 40 >= 0 THEN c - 40 ELSE 40 - c
         IN  [score |-> 8 + RoundDiv(40 - dist, 20),
              verdict |-> "Good cloud cover for colorful sunrise"]
    ELSE IF Ge(cloudCover, 10) /\ Lt(cloudCover, 20)
    THEN [score |-> 6, verdict |-> "Light clouds - some color potential"]
    ELSE IF Gt(cloudCover, 60) /\ Le(cloudCover, 80)
    THEN [score |-> 5, verdict |-> "Heavy clouds - may get some color"]
    ELSE IF Lt(cloudCover, 10)
    THEN [score |-> 4, verdict |-> "Clear sky - pretty but no cloud color"]
    ELSE [score |-> 2, verdict |-> "Overcast - unlikely to see color"]

calculatePhotoScore(weather, sunriseData) ==
    IF IsNull(weather) \/ ~Has(weather, "hourly") THEN Thrown
    ELSE IF ~Has(weather.hourly, "time") THEN Thrown
    ELSE
    LET tomorrow == getTomorrowDate
        hourIndex == getMorningHourIndex(weather.hourly.time, tomorrow)
    IN
    IF hourIndex = -1
    THEN [threw |-> FALSE, score |-> 0, details |-> [text |-> "No data"],
          verdict |-> "No data available", cloudCover |-> JNum(0)]
    ELSE IF ~Has(weather.hourly, "cloud_cover") THEN Thrown
    ELSE
    LET cloudCover == Index(weather.hourly.cloud_cover, hourIndex)
        humidity ==
            IF Has(weather.hourly, "relative_humidity_2m")
            THEN OrElse(Index(weather.hourly.relative_humidity_2m, hourIndex), JNum(50))
            ELSE JNum(50)
        band == PhotoBand(cloudCover)
    IN  [threw |-> FALSE, score |-> band.score, cloudCover |-> cloudCover,
         humidity |-> humidity, verdict |-> band.verdict]

\* Wind speed sub-score of the cycle scorer.
CycleWindScore(windSpeed) ==
    IF Lt(windSpeed, 8) THEN 10
    ELSE IF Lt(windSpeed, 12) THEN 8
    ELSE IF Le(windSpeed, 15) THEN 5
    ELSE 1

\* Weather sub-score from the WMO code.
CycleWeatherScore(weatherCode) ==
    IF Le(weatherCode, 3) THEN 10
    ELSE IF Le(weatherCode, 49) THEN 7
    ELSE IF Le(weatherCode, 59) THEN 3
    ELSE 0

CycleTempScore(temp) ==
    IF Ge(temp, 55) /\ Le(temp, 75) THEN 10
    ELSE IF (Ge(temp, 45) /\ Lt(temp, 55)) \/ (Gt(temp, 75) /\ Le(temp, 85)) THEN 7
    ELSE 3

\* The normalisation without the second remainder: windDirection % 360.
NormalizeDirNoWrap(windDirection) ==
    IF ToNumber(windDirection).t = "num"
    THEN JNum(JsRem(ToNumber(windDirection).v, 360))
    ELSE JNaN

\* ((windDirection % 360) + 360) % 360
NormalizeDir(windDirection) ==
    IF ToNumber(windDirection).t = "num"
    THEN JNum(JsRem(JsRem(ToNumber(windDirection).v, 360) + 360, 360))
    ELSE JNaN

\* The direction branch of calculateCycleScore on the normalised direction.
CycleDirection(normalizedDir) ==
    IF Ge(normalizedDir, 315) \/ Le(normalizedDir, 45)
    THEN [direction |-> "ac",
          directionText |-> "Go to Atlantic City first, wind at your back coming home"]
    ELSE IF Ge(normalizedDir, 135) /\ Le(normalizedDir, 225)
    THEN [direction |-> "longport",
          directionText |-> "Go to Longport first, wind at your back coming home"]
    ELSE [direction |-> "either",
          directionText |-> "Wind is cross-shore, either direction works"]

calculateCycleScore(weather) ==
    IF IsNull(weather) \/ ~Has(weather, "hourly") THEN Thrown
    ELSE IF ~Has(weather.hourly, "time") THEN Thrown
    ELSE
    LET tomorrow == getTomorrowDate
        hourIndex == getMorningHourIndex(weather.hourly.time, tomorrow)
    IN
    IF hourIndex = -1
    THEN [threw |-> FALSE, score |-> 0, details |-> [text |-> "No data"],
          direction |-> "null"]
    ELSE IF \E f \in {"wind_speed_10m", "wind_direction_10m",
                      "temperature_2m", "weather_code"} : ~Has(weather.hourly, f)
    THEN Thrown
    ELSE
    LET windSpeed == Index(weather.hourly.wind_speed_10m, hourIndex)
        windDirection == Index(weather.hourly.wind_direction_10m, hourIndex)
        temp == Index(weather.hourly.temperature_2m, hourIndex)
        weatherCode == Index(weather.hourly.weather_code, hourIndex)
        windScore == CycleWindScore(windSpeed)
        weatherScore == CycleWeatherScore(weatherCode)
        tempScore == CycleTempScore(temp)
        finalScore == WeightedRound(windScore, weatherScore, tempScore)
        normalizedDir == NormalizeDir(windDirection)
        dir == CycleDirection(normalizedDir)
    IN  [threw |-> FALSE,
         score |-> Clamp(finalScore),
         windSpeed |-> ToNumber(windSpeed),
         windDirection |-> normalizedDir,
         windCardinal |-> IF normalizedDir.t = "num"
                          THEN degreesToCardinal(normalizedDir.v) ELSE "undefined",
         temp |-> ToNumber(temp),
         direction |-> dir.direction,
         directionText |-> dir.directionText]

---------------------------------------------------------------------------
\* Recommendation.

\* Array.prototype.sort with the comparator (a, b) => b.score - a.score is a
\* stable sort by descending score: x, which followed every element of s in
\* the array, goes behind the elements that score at least as much.
RECURSIVE InsertByScore(_, _)
InsertByScore(x, s) ==
    IF s = <<>> THEN <<x>>
    ELSE IF x.score > Head(s).score THEN <<x>> \o s
    ELSE <<Head(s)>> \o InsertByScore(x, Tail(s))

RECURSIVE SortByScoreDesc(_)
SortByScoreDesc(activities) ==
    IF activities = <<>> THEN <<>>
    ELSE InsertByScore(activities[Len(activities)],
                       SortByScoreDesc(SubSeq(activities, 1, Len(activities) - 1)))

\* The ranking that lets the later of two equal scores come first.
BestActivityTiesLast(scores) ==
    LET pick(a, b) == IF b.score >= a.score THEN b ELSE a IN
    pick(pick([name |-> "surf", score |-> scores.surf, label |-> "GO SURF"],
              [name |-> "photo", score |-> scores.photo, label |-> "SUNRISE PHOTOS"]),
         [name |-> "cycle", score |-> scores.cycle, label |-> "GO CYCLING"])

\* activities[0] after the sort.
BestActivity(scores) ==
    SortByScoreDesc(<<[name |-> "surf", score |-> scores.surf, label |-> "GO SURF"],
                      [name |-> "photo", score |-> scores.photo, label |-> "SUNRISE PHOTOS"],
                      [name |-> "cycle", score |-> scores.cycle, label |-> "GO CYCLING"]>>)[1]

\* The override test with the threshold one lower.
AllScoresLowBelowThree(best) == best.score < 3

\* if (best.score < 4)
AllScoresLow(best) == best.score < 4

icons == [surf |-> "&#127940;", photo |-> "&#128247;", cycle |-> "&#128690;"]

getRecommendation(scores, surfScoreData, cycleData) ==
    LET best == BestActivity(scores)
        detail ==
            IF best.name = "surf" THEN surfScoreData.details
            ELSE IF best.name = "cycle" /\ Has(cycleData, "directionText")
            THEN [text |-> cycleData.directionText]
            ELSE IF best.name = "photo" THEN [text |-> "Get up early and find your spot"]
            ELSE [text |-> ""]
    IN  IF AllScoresLow(best)
        THEN [activity |-> "SLEEP IN",
              detail |-> [text |-> "Nothing looks great tomorrow"],
              icon |-> "&#128564;"]
        ELSE [activity |-> best.label, detail |-> detail, icon |-> icons[best.name]]

---------------------------------------------------------------------------
\* Tide summary.  A NOAA prediction is [t |-> [date, h, m], type]: t is the
\* string "YYYY-MM-DD HH:MM" split at the blank and the colon, date as a day
\* number, h and m as the two-character strings they are.  The predictions
\* array is [list |-> <<...>>]; null or undefined in its place is NullData.

\* The two-digit decimal numeral of n.
Pad2(n) == IF n < 10 THEN "0" \o ToString(n) ELSE ToString(n)

\* parseInt(s, 10) of a two-digit numeral.
parseInt(s) == CHOOSE n \in 0..99 : Pad2(n) = s

\* The window test with noon excluded.
TideInWindowBeforeNoon(hour) == hour >= 4 /\ hour < 12

\* if (hour >= 4 && hour <= 12)
TideInWindow(hour) == hour >= 4 /\ hour <= 12

\* `${hour12}:${m} ${ampm}`
TideTime(h, m) ==
    LET hourNum == parseInt(h)
        ampm == IF hourNum >= 12 THEN "PM" ELSE "AM"
        hour12 == IF hourNum > 12 THEN hourNum - 12
                  ELSE IF hourNum = 0 THEN 12 ELSE hourNum
    IN  ToString(hour12) \o ":" \o m \o " " \o ampm

\* The for loop of getNoaaTideInfo from position i (1-based) on: morningTides.
RECURSIVE MorningTides(_, _, _)
MorningTides(predictions, tomorrow, i) ==
    IF i > Len(predictions) THEN <<>>
    ELSE LET pred == predictions[i]
             rest == MorningTides(predictions, tomorrow, i + 1)
         IN  IF pred.type # "H" /\ pred.type # "L" THEN rest
             ELSE IF pred.t.date = tomorrow /\ TideInWindow(parseInt(pred.t.h))
             THEN <<[type |-> pred.type, time |-> TideTime(pred.t.h, pred.t.m)]>> \o rest
             ELSE rest

\* morningTides.map(t => `${t.type} ${t.time}`).join(', ')
RECURSIVE JoinTides(_)
JoinTides(morningTides) ==
    IF morningTides = <<>> THEN ""
    ELSE LET first == morningTides[1].type \o " " \o morningTides[1].time IN
         IF Len(morningTides) = 1 THEN first
         ELSE first \o ", " \o JoinTides(Tail(morningTides))

getNoaaTideInfo(predictions) ==
    IF IsNull(predictions) \/ Len(predictions.list) = 0 THEN "--"
    ELSE LET morningTides == MorningTides(predictions.list, getTomorrowDate, 1) IN
         IF Len(morningTides) = 0 THEN "--" ELSE JoinTides(morningTides)

---------------------------------------------------------------------------
\* The state object and the panels before any run.

InitState ==
    [weather |-> NullData, sunrise |-> NullData, marineData |-> NullData,
     noaaTides |-> NullData, waterTempData |-> NullData,
     scores |-> [surf |-> 0, photo |-> 0, cycle |-> 0],
     recommendation |-> NullData,
     \* properties the first run adds (undefined until then)
     surfScoreData |-> NullData, photoData |-> NullData, cycleData |-> NullData,
     waterTempNoaa |-> NullData]

Fetches == {"weather", "sunrise", "noaaTides", "waterTemp", "marine"}

Pending == [pending |-> TRUE]
Rejected == [rejected |-> TRUE]

\* A run: where it stands (idle, awaiting, done after showContent, failed after
\* showError) and what each of its fetches has settled to; as history, the
\* scores object as its calculateAllScores left it, the runs that were awaiting
\* their fetches when it started, and its place in the order in which the
\* runs ended (0 until it ends).
IdleRun ==
    [pc |-> "idle", got |-> [f \in Fetches |-> Pending], scored |-> NullData,
     startedDuring |-> {}, endedAt |-> 0]

\* The panels: which one is shown, and what updateUI last wrote to the cards.
InitDisplay == [panel |-> "none", ui |-> NullData]

\* The part of the state a specification of one pure function leaves alone.
AppAtRest ==
    /\ state = InitState
    /\ display = InitDisplay
    /\ errors = <<>>
    /\ runs = [r \in 1..MaxRuns |-> IdleRun]

NoCall == [fn |-> "none"]

---------------------------------------------------------------------------
\* getMorningHourIndex applied to hourly series of up to MaxLen timestamps.

\* Hours 5, 6, 9 and 10 of three consecutive days.
SampleTimes == {d * 24 + h : d \in 0..2, h \in {5, 6, 9, 10}}

RECURSIVE SeqsUpTo(_, _)
SeqsUpTo(S, n) ==
    IF n = 0 THEN {<<>>}
    ELSE LET shorter == SeqsUpTo(S, n - 1) IN
         shorter \cup {Append(s, x) : s \in {t \in shorter : Len(t) = n - 1}, x \in S}

InitIdx ==
    /\ today = 0
    /\ call \in {[fn |-> "getMorningHourIndex", hourlyTimes |-> ts, targetDate |-> d] :
                    ts \in SeqsUpTo(SampleTimes, MaxLen), d \in {1, 2}}
    /\ ret = NoCall
    /\ AppAtRest

CallGetMorningHourIndex ==
    /\ call.fn = "getMorningHourIndex"
    /\ ret = NoCall
    /\ ret' = [fn |-> call.fn,
               value |-> getMorningHourIndex(call.hourlyTimes, call.targetDate)]
    /\ UNCHANGED <<today, call, state, display, errors, runs>>

NextIdx == CallGetMorningHourIndex

SpecIdx == InitIdx /\ [][NextIdx]_vars

\* The 0-based positions of hourlyTimes whose local date is targetDate and whose
\* local hour is one of 6, 7, 8, 9.
MorningPositions(hourlyTimes, targetDate) ==
    {i \in 0..(Len(hourlyTimes) - 1) :
        /\ hourlyTimes[i + 1] \div 24 = targetDate
        /\ hourlyTimes[i + 1] % 24 \in 6..9}

\* C9: getMorningHourIndex returns the smallest index whose timestamp falls on
\* the target date with local hour in [6,9], and -1 exactly when there is none.
C9_FirstMorningIndex ==
    ret.fn = "getMorningHourIndex" =>
        LET M == MorningPositions(call.hourlyTimes, call.targetDate) IN
        /\ (ret.value = -1) <=> (M = {})
        /\ M # {} => (ret.value \in M /\ \A j \in M : ret.value <= j)

\* C9 witness: a series whose first entry is outside the window and whose second
\* and third are inside it (the second at 09:00) has returned index 1.
C9_Witness ==
    /\ ret.fn = "getMorningHourIndex"
    /\ ret.value = 1
    /\ MorningPositions(call.hourlyTimes, call.targetDate) = {1, 2}
    /\ call.hourlyTimes[2] % 24 = 9

---------------------------------------------------------------------------
\* getRecommendation applied to every triple of scores.

SampleSurfData ==
    {[threw |-> FALSE, score |-> 0, details |-> [text |-> "No data available"]]}

SampleCycleData ==
    {[threw |-> FALSE, score |-> 0, details |-> [text |-> "No data"], direction |-> "null"],
     [threw |-> FALSE, score |-> 1, direction |-> "either",
      directionText |-> "Wind is cross-shore, either direction works"]}

InitRec ==
    /\ today = 0
    /\ call \in {[fn |-> "getRecommendation",
                  scores |-> [surf |-> s, photo |-> p, cycle |-> c],
                  surfScoreData |-> sd, cycleData |-> cd] :
                    s \in 0..10, p \in 0..10, c \in 0..10,
                    sd \in SampleSurfData, cd \in SampleCycleData}
    /\ ret = NoCall
    /\ AppAtRest

CallGetRecommendation ==
    /\ call.fn = "getRecommendation"
    /\ ret = NoCall
    /\ ret' = [fn |-> call.fn,
               value |-> getRecommendation(call.scores, call.surfScoreData, call.cycleData)]
    /\ UNCHANGED <<today, call, state, display, errors, runs>>

NextRec == CallGetRecommendation

SpecRec == InitRec /\ [][NextRec]_vars

MaxScore(scores) ==
    CHOOSE m \in {scores.surf, scores.photo, scores.cycle} :
        \A x \in {scores.surf, scores.photo, scores.cycle} : x <= m

\* C1: when the highest of the three scores is below 4 the recommendation is the
\* fixed SLEEP IN record; when it is 4 or more the activity is never SLEEP IN.
C1_SleepInOverride ==
    ret.fn = "getRecommendation" =>
        /\ MaxScore(call.scores) < 4 =>
              ret.value = [activity |-> "SLEEP IN",
                           detail |-> [text |-> "Nothing looks great tomorrow"],
                           icon |-> "&#128564;"]
        /\ MaxScore(call.scores) >= 4 => ret.value.activity # "SLEEP IN"

\* C1 witness: surf=3, photo=2, cycle=1 has been answered with SLEEP IN.
C1_Witness ==
    /\ ret.fn = "getRecommendation"
    /\ call.scores = [surf |-> 3, photo |-> 2, cycle |-> 1]
    /\ ret.value.activity = "SLEEP IN"

\* The first activity, in the order surf, photo, cycle, that has the highest score.
FirstHighest(scores) ==
    IF scores.surf = MaxScore(scores) THEN "surf"
    ELSE IF scores.photo = MaxScore(scores) THEN "photo"
    ELSE "cycle"

\* C2: the winner is the activity with the highest score, the first of them in
\* the order surf, photo, cycle on a tie; from a top score of 4 on, the label
\* and the icon returned are the winner's.
C2_WinnerFirstHighest ==
    ret.fn = "getRecommendation" =>
        LET w == FirstHighest(call.scores) IN
        /\ BestActivity(call.scores).name = w
        /\ BestActivity(call.scores).score = MaxScore(call.scores)
        /\ MaxScore(call.scores) >= 4 =>
              /\ ret.value.activity =
                    (IF w = "surf" THEN "GO SURF"
                     ELSE IF w = "photo" THEN "SUNRISE PHOTOS" ELSE "GO CYCLING")
              /\ ret.value.icon = icons[w]

\* C2 witness: surf=7, photo=7, cycle=5 has been answered with GO SURF.
C2_Witness ==
    /\ ret.fn = "getRecommendation"
    /\ call.scores = [surf |-> 7, photo |-> 7, cycle |-> 5]
    /\ ret.value.activity = "GO SURF"

---------------------------------------------------------------------------
\* Payloads as the two Open-Meteo endpoints deliver them: an hourly time array
\* and, aligned with it, one array per requested variable.

\* Four hourly series around tomorrow's midnight (hour b): "late" starts at
\* 05:00 of tomorrow, "early" at 06:00, "gap" has 05:00, 07:00 and 08:00 (the
\* 06:00 entry is missing), "short" ends today at 23:00.
TimeLayout(layout, b) ==
    CASE layout = "late" -> <<b + 5, b + 6, b + 7>>
      [] layout = "early" -> <<b + 6, b + 7, b + 8>>
      [] layout = "gap" -> <<b + 5, b + 7, b + 8>>
      [] layout = "short" -> <<b - 18, b - 17, b - 1>>

\* The 0-based position the builder writes the value of interest to: the first
\* morning entry of the layout (position 0 where there is none).
ValueAt(layout) == IF layout \in {"late", "gap"} THEN 1 ELSE 0

\* A variable the payload does not carry at all.
NoArray == [t |-> "noarray", v |-> 0]

\* The array of one variable: x at ValueAt(layout) and 99 elsewhere; with
\* x undefined the array ends before that position.
MkArray(layout, x) ==
    IF x = JUndef THEN [i \in 1..ValueAt(layout) |-> JNum(99)]
    ELSE [i \in 1..3 |-> IF i = ValueAt(layout) + 1 THEN x ELSE JNum(99)]

\* fields: variable name -> the value at the position of interest, or NoArray.
MkPayload(layout, b, fields) ==
    [src |-> 0,
     hourly |-> [f \in {"time"} \cup {g \in DOMAIN fields : fields[g] # NoArray} |->
                    IF f = "time" THEN TimeLayout(layout, b) ELSE MkArray(layout, fields[f])]]

\* A payload whose hourly object has no time array.
NoTimePayload == [src |-> 0, hourly |-> [f \in {"wave_height"} |-> <<JNum(20)>>]]

Nums(S) == {JNum(n) : n \in S}

SampleMarine(b) ==
    {NullData, NoTimePayload} \cup
    {MkPayload(layout, b,
               [wave_height |-> wh, swell_wave_height |-> sh,
                wave_period |-> wp, swell_wave_period |-> sp,
                wave_direction |-> JNum(112)]) :
        layout \in {"late", "early", "gap", "short"},
        wh \in {NoArray, JNull} \cup
               Nums({0, 9, 10, 19, 20, 29, 30, 32, 39, 40, 49, 50, 59, 60, 79, 80}),
        sh \in {NoArray} \cup Nums({0, 50}),
        wp \in {NoArray} \cup Nums({9}),
        sp \in {NoArray} \cup Nums({4, 5, 8, 9, 11})}

SampleSurfWeather(b) ==
    {NullData, NoTimePayload,
     MkPayload("short", b, [wind_speed_10m |-> JNum(6), wind_direction_10m |-> JNum(270)]),
     MkPayload("late", b, [wind_direction_10m |-> JNum(270)]),
     MkPayload("late", b, [wind_speed_10m |-> JNum(6)])} \cup
    {MkPayload(layout, b, [wind_speed_10m |-> ws, wind_direction_10m |-> wd]) :
        layout \in {"late", "early", "gap"},
        ws \in Nums({6, 8, 14, 15}),
        wd \in Nums({249, 250, 320, 321})}

SamplePhotoWeather(b) ==
    {NoTimePayload} \cup
    {MkPayload(layout, b, [cloud_cover |-> cc, relative_humidity_2m |-> rh]) :
        layout \in {"late", "early", "short"},
        cc \in {NoArray, JNull, JUndef} \cup Nums(0..100),
        rh \in {NoArray} \cup Nums({0, 65})}

SampleCycleWeather(b) ==
    {NoTimePayload} \cup
    {MkPayload(layout, b,
               [wind_speed_10m |-> ws, wind_direction_10m |-> wd,
                temperature_2m |-> tp, weather_code |-> wc]) :
        layout \in {"late", "early", "short"},
        ws \in {NoArray, JNull, JUndef} \cup Nums({7, 8, 11, 12, 15, 16}),
        wd \in {NoArray} \cup Nums({0, 180}),
        tp \in {NoArray, JNull} \cup Nums({44, 45, 54, 55, 75, 76, 85, 86}),
        wc \in {NoArray, JNull, JUndef} \cup Nums({0, 3, 4, 49, 50, 59, 60})} \cup
    {MkPayload("late", b,
               [wind_speed_10m |-> JNum(7), wind_direction_10m |-> wd,
                temperature_2m |-> JNum(60), weather_code |-> JNum(0)]) :
        wd \in {JNull, JUndef} \cup Nums((-MaxDir)..MaxDir)}

---------------------------------------------------------------------------
\* The three scorers applied to sample payloads.

InitScore ==
    /\ today = 1
    /\ \/ call \in {[fn |-> "calculateSurfScore", marineData |-> md, weatherData |-> wx] :
                       md \in SampleMarine(48), wx \in SampleSurfWeather(48)}
       \/ call \in {[fn |-> "calculatePhotoScore", weather |-> wx, sunriseData |-> NullData] :
                       wx \in SamplePhotoWeather(48)}
       \/ call \in {[fn |-> "calculateCycleScore", weather |-> wx] :
                       wx \in SampleCycleWeather(48)}
    /\ ret = NoCall
    /\ AppAtRest

CallCalculateSurfScore ==
    /\ call.fn = "calculateSurfScore"
    /\ ret = NoCall
    /\ ret' = [fn |-> call.fn,
               value |-> calculateSurfScore(call.marineData, call.weatherData)]
    /\ UNCHANGED <<today, call, state, display, errors, runs>>

CallCalculatePhotoScore ==
    /\ call.fn = "calculatePhotoScore"
    /\ ret = NoCall
    /\ ret' = [fn |-> call.fn,
               value |-> calculatePhotoScore(call.weather, call.sunriseData)]
    /\ UNCHANGED <<today, call, state, display, errors, runs>>

CallCalculateCycleScore ==
    /\ call.fn = "calculateCycleScore"
    /\ ret = NoCall
    /\ ret' = [fn |-> call.fn, value |-> calculateCycleScore(call.weather)]
    /\ UNCHANGED <<today, call, state, display, errors, runs>>

NextScore ==
    \/ CallCalculateSurfScore
    \/ CallCalculatePhotoScore
    \/ CallCalculateCycleScore

SpecScore == InitScore /\ [][NextScore]_vars

\* What the claims about the scorers read off the arguments, without the
\* scorers' own code.

\* The first position of the morning window of tomorrow in a payload, -1 if none.
MorningEntry(data) ==
    LET M == MorningPositions(data.hourly.time, today + 1) IN
    IF M = {} THEN -1 ELSE CHOOSE i \in M : \A j \in M : i <= j

\* The dataset is there, with its time array.
Present(data) == ~IsNull(data) /\ Has(data, "hourly") /\ Has(data.hourly, "time")

HasMorning(data) == Present(data) /\ MorningEntry(data) # -1

\* The value variable f holds for the morning entry; undefined when the
\* payload has no such array or the array is too short.
AtMorning(data, f) ==
    IF Has(data.hourly, f) /\ MorningEntry(data) + 1 \in DOMAIN data.hourly[f]
    THEN data.hourly[f][MorningEntry(data) + 1]
    ELSE JUndef

NonZero(x) == x.t = "num" /\ x.v # 0

\* The integer nearest to tenths/10, halves upwards, kept within [1,10].
IsRoundedClamped(score, tenths) ==
    \E r \in 0..11 :
        /\ 10 * r - 5 <= tenths
        /\ tenths < 10 * r + 5
        /\ score = (IF r < 1 THEN 1 ELSE IF r > 10 THEN 10 ELSE r)

\* The scorer returned (did not throw).
Returned(fn) == ret.fn = fn /\ ~ret.value.threw

\* C3 (as claimed): a scorer whose datasets are present returns a result with
\* a score in 0..10, whichever of the per-variable arrays are absent.
C3_ScorersTotal ==
    /\ (ret.fn = "calculateSurfScore" /\ Present(call.marineData)
            /\ (IsNull(call.weatherData) \/ Present(call.weatherData)))
        => (~ret.value.threw /\ ret.value.score \in 0..10)
    /\ (ret.fn = "calculatePhotoScore" /\ Present(call.weather))
        => (~ret.value.threw /\ ret.value.score \in 0..10)
    /\ (ret.fn = "calculateCycleScore" /\ Present(call.weather))
        => (~ret.value.threw /\ ret.value.score \in 0..10)

\* The scenario of C5: a morning entry with wave height 3.2 ft (no other swell
\* height), period 9 s, and a 6 mph wind from an offshore direction.
C5_Scenario ==
    /\ ret.fn = "calculateSurfScore"
    /\ HasMorning(call.marineData)
    /\ AtMorning(call.marineData, "wave_height") = JNum(32)
    /\ ~NonZero(AtMorning(call.marineData, "swell_wave_height"))
    /\ \/ AtMorning(call.marineData, "swell_wave_period") = JNum(9)
       \/ /\ ~NonZero(AtMorning(call.marineData, "swell_wave_period"))
          /\ AtMorning(call.marineData, "wave_period") = JNum(9)
    /\ HasMorning(call.weatherData)
    /\ AtMorning(call.weatherData, "wind_speed_10m") = JNum(6)
    /\ AtMorning(call.weatherData, "wind_direction_10m").t = "num"
    /\ AtMorning(call.weatherData, "wind_direction_10m").v \in 250..320

\* C5 (as claimed): in that scenario heightScore=5, periodScore=8, windScore=10
\* and the surf score is 7.
C5_ScenarioAsClaimed ==
    C5_Scenario =>
        /\ ~ret.value.threw
        /\ ret.value.heightScore = 5
        /\ ret.value.periodScore = 8
        /\ ret.value.windScore = 10
        /\ ret.value.score = 7

\* C5 (amended): in that scenario heightScore=7 (3.2 ft lies in the band [3,4)),
\* periodScore=8, windScore=10 and the surf score is round(2.8+2.4+3) = 8.
C5_ScenarioAmended ==
    C5_Scenario =>
        /\ ~ret.value.threw
        /\ ret.value.heightScore = 7
        /\ ret.value.periodScore = 8
        /\ ret.value.windScore = 10
        /\ ret.value.score = 8

\* C5 witness: the scenario has been scored, the period coming from the swell.
C5_Witness ==
    /\ C5_Scenario
    /\ AtMorning(call.marineData, "swell_wave_period") = JNum(9)
    /\ ret.value.score = 8

\* C6: a returned surf or cycle score is an integer in 0..10 that is 0 exactly
\* when the dataset or the morning window is missing, and is otherwise the
\* rounded weighted sum of the sub-scores kept within [1,10].
C6_ScoreRoundedClamped ==
    /\ Returned("calculateSurfScore") =>
          /\ ret.value.score \in 0..10
          /\ (ret.value.score = 0) <=> ~HasMorning(call.marineData)
          /\ HasMorning(call.marineData) =>
                /\ ret.value.score \in 1..10
                /\ IsRoundedClamped(ret.value.score,
                                    4 * ret.value.heightScore + 3 * ret.value.periodScore
                                        + 3 * ret.value.windScore)
    /\ Returned("calculateCycleScore") =>
          /\ ret.value.score \in 0..10
          /\ (ret.value.score = 0) <=> ~HasMorning(call.weather)
          /\ HasMorning(call.weather) =>
                /\ ret.value.score \in 1..10
                /\ IsRoundedClamped(ret.value.score,
                      4 * CycleWindScore(AtMorning(call.weather, "wind_speed_10m"))
                    + 3 * CycleWeatherScore(AtMorning(call.weather, "weather_code"))
                    + 3 * CycleTempScore(AtMorning(call.weather, "temperature_2m")))

\* C6 witness: the lowest surf sub-scores (1, 2, 2: weighted sum 1.6) have been
\* scored 2.
C6_Witness ==
    /\ Returned("calculateSurfScore")
    /\ HasMorning(call.marineData)
    /\ ret.value.heightScore = 1
    /\ ret.value.periodScore = 2
    /\ ret.value.windScore = 2
    /\ ret.value.score = 2

\* The cloud cover of the morning entry is the number c.
PhotoCloud(c) ==
    /\ Returned("calculatePhotoScore")
    /\ HasMorning(call.weather)
    /\ AtMorning(call.weather, "cloud_cover") = JNum(c)

\* C7: for every cloud cover c in [20,60] of the morning entry the photo score
\* lies in [8,10], and it is exactly 10 at c = 40.
C7_GoodBandRange ==
    \A c \in 20..60 :
        PhotoCloud(c) => /\ ret.value.score \in 8..10
                         /\ c = 40 => ret.value.score = 10

\* C7 witness: cloud cover 40 has been scored 10.
C7_Witness == PhotoCloud(40) /\ ret.value.score = 10

\* C8 (as claimed): at c = 20 and c = 60 the photo score is 8, and 10 at c = 40.
C8_EdgesAsClaimed ==
    /\ (PhotoCloud(20) \/ PhotoCloud(60)) => ret.value.score = 8
    /\ PhotoCloud(40) => ret.value.score = 10

\* C8 (amended): at c = 20 and c = 60 the photo score is 9, which is the lowest
\* score of the band [20,60], and it is 10 at c = 40.
C8_EdgesAmended ==
    /\ (PhotoCloud(20) \/ PhotoCloud(60)) => ret.value.score = 9
    /\ \A c \in 20..60 : PhotoCloud(c) => ret.value.score >= 9
    /\ PhotoCloud(40) => ret.value.score = 10

\* C8 witness: cloud cover 20 has been scored 9.
C8_Witness == PhotoCloud(20) /\ ret.value.score = 9

\* The height C10 expects: the swell height when present and non-zero, else the
\* raw wave height, else 0.
PreferredHeight(marineData) ==
    IF NonZero(AtMorning(marineData, "swell_wave_height"))
    THEN AtMorning(marineData, "swell_wave_height").v
    ELSE IF NonZero(AtMorning(marineData, "wave_height"))
    THEN AtMorning(marineData, "wave_height").v
    ELSE 0

\* C10 (as claimed): the height reported and scored is the swell height of the
\* morning entry when present and non-zero, else the raw wave height, else 0.
C10_SwellHeightPreferred ==
    (Returned("calculateSurfScore") /\ HasMorning(call.marineData)) =>
        /\ ret.value.waveHeight = PreferredHeight(call.marineData)
        /\ ret.value.heightScore = HeightScore(PreferredHeight(call.marineData))

\* The wind direction of the morning entry is the integer d.
CycleWindFrom(d) ==
    /\ Returned("calculateCycleScore")
    /\ HasMorning(call.weather)
    /\ AtMorning(call.weather, "wind_direction_10m") = JNum(d)

\* C13: for every integer wind direction d, with n the representative of d in
\* [0,360), the direction returned is "ac" iff n is in [315,360) or [0,45],
\* "longport" iff n is in [135,225], and "either" otherwise; n is the
\* direction reported.
C13_DirectionClassification ==
    (/\ Returned("calculateCycleScore")
     /\ HasMorning(call.weather)
     /\ AtMorning(call.weather, "wind_direction_10m").t = "num") =>
            LET n == AtMorning(call.weather, "wind_direction_10m").v % 360 IN
            /\ ret.value.windDirection = JNum(n)
            /\ ret.value.direction \in {"ac", "longport", "either"}
            /\ (ret.value.direction = "ac") <=> (n \in 315..359 \/ n \in 0..45)
            /\ (ret.value.direction = "longport") <=> (n \in 135..225)
            /\ (ret.value.direction = "either") <=> (n \in 46..134 \/ n \in 226..314)

\* C13 witness: a wind from -180 degrees has been classified as a south wind.
C13_Witness == CycleWindFrom(-180) /\ ret.value.direction = "longport"

\* The timestamp of the marine entry the height and the period are read from.
MarineMorningTime(marineData) == marineData.hourly.time[MorningEntry(marineData) + 1]

\* The 0-based positions of the weather series that carry timestamp t.
WeatherPositionsAt(weatherData, t) ==
    {i \in 0..(Len(weatherData.hourly.time) - 1) : weatherData.hourly.time[i + 1] = t}

\* The wind sub-score of the values the weather series holds at position i.
WindScoreAt(weatherData, i) ==
    SurfWindBand(OrElse(Index(weatherData.hourly.wind_speed_10m, i), JNum(0)).v,
                 OrElse(Index(weatherData.hourly.wind_direction_10m, i), JNum(0)).v)

\* Both series have a morning entry and the weather series has an entry for
\* the hour of the marine entry used.
C11_Scenario ==
    /\ Returned("calculateSurfScore")
    /\ HasMorning(call.marineData)
    /\ HasMorning(call.weatherData)
    /\ WeatherPositionsAt(call.weatherData, MarineMorningTime(call.marineData)) # {}

\* C11 (as claimed): when both series have a morning entry, the wind sub-score
\* is that of the wind speed and direction of the weather entry whose local
\* hour is the hour of the marine entry used for height and period, whatever
\* the lengths, offsets and gaps of the two series.
C11_WindAtMarineHour ==
    C11_Scenario =>
        \E i \in WeatherPositionsAt(call.weatherData, MarineMorningTime(call.marineData)) :
            ret.value.windScore = WindScoreAt(call.weatherData, i)

---------------------------------------------------------------------------
\* calculateSurfScore applied to one forecast after another, the wave height
\* of the morning entry a tenth of a foot higher each time.

InitHeight ==
    /\ today = 0
    /\ call \in {[fn |-> "calculateSurfScore",
                  marineData |-> MkPayload("early", 24,
                                           [wave_height |-> JNum(0),
                                            swell_wave_height |-> sh,
                                            swell_wave_period |-> sp]),
                  weatherData |-> wx] :
                    sh \in {NoArray, JNum(55)}, sp \in Nums({4, 9}),
                    wx \in {NullData,
                            MkPayload("late", 24, [wind_speed_10m |-> JNum(6),
                                                   wind_direction_10m |-> JNum(270)])}}
    /\ ret = NoCall
    /\ AppAtRest

\* The wave height of the morning entry of the forecast being scored.
SweptHeight == call.marineData.hourly.wave_height[1].v

ScoreNextHeight ==
    /\ ret.fn = "calculateSurfScore"
    /\ SweptHeight < MaxHeight
    /\ call' = [call EXCEPT !.marineData.hourly.wave_height[1] = JNum(@.v + 1)]
    /\ ret' = [fn |-> call.fn,
               value |-> calculateSurfScore(call'.marineData, call'.weatherData)]
    /\ UNCHANGED <<today, state, display, errors, runs>>

NextHeight ==
    \/ CallCalculateSurfScore
    \/ ScoreNextHeight

SpecHeight == InitHeight /\ [][NextHeight]_vars

\* C14: from one scored height to the next the height sub-score does not
\* fall while the height stays below 6 ft and does not rise from the band
\* [5,6) on, where it is 10; it falls only on reaching 6 ft, from 10 to 8, and
\* on reaching 8 ft, from 8 to 6; it is never above 10.
C14_HeightRisesThenFalls ==
    [][(ret.fn = "calculateSurfScore" /\ ret'.fn = "calculateSurfScore") =>
          LET h == SweptHeight
              hs0 == ret.value.heightScore
              hs1 == ret'.value.heightScore
          IN  /\ SweptHeight' = h + 1
              /\ hs1 <= 10
              /\ h + 1 < 60 => hs1 >= hs0
              /\ h >= 50 => hs1 <= hs0
              /\ (h >= 50 /\ h + 1 < 60) => hs1 = 10
              /\ h + 1 = 60 => (hs0 = 10 /\ hs1 = 8)
              /\ h + 1 = 80 => (hs0 = 8 /\ hs1 = 6)
              /\ hs1 < hs0 => h + 1 \in {60, 80}]_vars

\* C14 witness: 6.0 ft has been scored, with height sub-score 8.
C14_Witness ==
    /\ ret.fn = "calculateSurfScore"
    /\ SweptHeight = 60
    /\ ret.value.heightScore = 8

---------------------------------------------------------------------------
\* getNoaaTideInfo applied to lists of up to MaxLen predictions.

Prediction(date, hour, minute, type) ==
    [t |-> [date |-> date, h |-> Pad2(hour), m |-> Pad2(minute)], type |-> type]

\* Predictions of today (day d - 1), tomorrow (day d) and the day after, at
\* and around the edges of the window, of the types H, L and another.
SamplePredictions(d) ==
    {Prediction(d, 5, 45, "H"), Prediction(d, 11, 50, "L"), Prediction(d, 14, 0, "H"),
     Prediction(d, 3, 59, "L"), Prediction(d, 4, 0, "H"), Prediction(d, 12, 5, "L"),
     Prediction(d, 13, 0, "H"), Prediction(d, 6, 30, "N"),
     Prediction(d - 1, 6, 30, "H"), Prediction(d + 1, 7, 0, "L")}

InitTide ==
    /\ today = 0
    /\ call \in {[fn |-> "getNoaaTideInfo", predictions |-> ps] :
                    ps \in {NullData} \cup
                           {[list |-> l] : l \in SeqsUpTo(SamplePredictions(1), MaxLen)}}
    /\ ret = NoCall
    /\ AppAtRest

CallGetNoaaTideInfo ==
    /\ call.fn = "getNoaaTideInfo"
    /\ ret = NoCall
    /\ ret' = [fn |-> call.fn, value |-> getNoaaTideInfo(call.predictions)]
    /\ UNCHANGED <<today, call, state, display, errors, runs>>

NextTide == CallGetNoaaTideInfo

SpecTide == InitTide /\ [][NextTide]_vars

\* The hour and the minute of a prediction, as numbers.
HourOf(e) == CHOOSE n \in 0..23 : Pad2(n) = e.t.h
MinuteOf(e) == CHOOSE n \in 0..59 : Pad2(n) = e.t.m

\* "<H|L> <12-hour time><sep><AM/PM>" of one event.
RenderedTide(e, sep) ==
    LET hour == HourOf(e)
        h12 == IF hour = 0 THEN 12 ELSE IF hour > 12 THEN hour - 12 ELSE hour
    IN  e.type \o " " \o ToString(h12) \o ":" \o Pad2(MinuteOf(e)) \o sep
            \o (IF hour < 12 THEN "AM" ELSE "PM")

RECURSIVE JoinedWithComma(_, _)
JoinedWithComma(events, sep) ==
    IF Len(events) = 1 THEN RenderedTide(events[1], sep)
    ELSE RenderedTide(events[1], sep) \o ", " \o JoinedWithComma(Tail(events), sep)

\* The summary of a list of events for target date d: the events of type H or
\* L, of date d and of hour in [4,12], in source order, rendered and joined
\* with ", "; "--" when there is none.
TideSummary(events, d, sep) ==
    LET Survives(e) == e.type \in {"H", "L"} /\ e.t.date = d /\ HourOf(e) \in 4..12
        kept == SelectSeq(events, Survives)
    IN  IF kept = <<>> THEN "--" ELSE JoinedWithComma(kept, sep)

\* The events 5:45AM High, 11:50AM Low, 2:00PM High of tomorrow.
TideExample ==
    [list |-> <<Prediction(today + 1, 5, 45, "H"), Prediction(today + 1, 11, 50, "L"),
                Prediction(today + 1, 14, 0, "H")>>]

TideListCall == ret.fn = "getNoaaTideInfo" /\ ~IsNull(call.predictions)

\* C12 (as claimed): the output is built, in source order, from exactly the H
\* and L events of the target date with hour in [4,12], each rendered as
\* "<H|L> <12-hour time><AM/PM>", joined with ", ", and is "--" when none
\* survive; the example list gives "H 5:45AM, L 11:50AM".
C12_TideSummaryAsClaimed ==
    TideListCall =>
        /\ ret.value = TideSummary(call.predictions.list, today + 1, "")
        /\ call.predictions = TideExample => ret.value = "H 5:45AM, L 11:50AM"

\* C12 (amended): the same, each event rendered as "<H|L> <h>:<mm> <AM|PM>",
\* with a blank between the time and AM/PM; the example list gives
\* "H 5:45 AM, L 11:50 AM".
C12_TideSummaryAmended ==
    TideListCall =>
        /\ ret.value = TideSummary(call.predictions.list, today + 1, " ")
        /\ call.predictions = TideExample => ret.value = "H 5:45 AM, L 11:50 AM"

\* C12 witness: the example list has been formatted, its 2:00PM event left out.
C12_Witness ==
    /\ TideListCall
    /\ call.predictions = TideExample
    /\ ret.value = "H 5:45 AM, L 11:50 AM"

---------------------------------------------------------------------------
\* Main data loading.

\* What the five endpoints answer run r when they answer; the values differ
\* between odd and even runs.  weatherNoCode is the answer to the URL of
\* API.openMeteo as written, which requests no weather_code.
WeatherOf(r, b) ==
    [MkPayload(IF r % 2 = 1 THEN "late" ELSE "early", b,
               [temperature_2m |-> JNum(IF r % 2 = 1 THEN 60 ELSE 40),
                relative_humidity_2m |-> JNum(65),
                cloud_cover |-> JNum(IF r % 2 = 1 THEN 40 ELSE 90),
                wind_speed_10m |-> JNum(IF r % 2 = 1 THEN 6 ELSE 20),
                wind_direction_10m |-> JNum(IF r % 2 = 1 THEN 270 ELSE 180),
                weather_code |-> JNum(IF r % 2 = 1 THEN 0 ELSE 61)])
     EXCEPT !.src = r]

WeatherNoCodeOf(r, b) ==
    [MkPayload(IF r % 2 = 1 THEN "late" ELSE "early", b,
               [temperature_2m |-> JNum(IF r % 2 = 1 THEN 60 ELSE 40),
                relative_humidity_2m |-> JNum(65),
                cloud_cover |-> JNum(IF r % 2 = 1 THEN 40 ELSE 90),
                wind_speed_10m |-> JNum(IF r % 2 = 1 THEN 6 ELSE 20),
                wind_direction_10m |-> JNum(IF r % 2 = 1 THEN 270 ELSE 180)])
     EXCEPT !.src = r]

MarineOf(r, b) ==
    [MkPayload(IF r % 2 = 1 THEN "early" ELSE "late", b,
               [wave_height |-> JNum(IF r % 2 = 1 THEN 45 ELSE 15),
                wave_period |-> JNum(7),
                wave_direction |-> JNum(112),
                swell_wave_height |-> JNum(IF r % 2 = 1 THEN 30 ELSE 10),
                swell_wave_period |-> JNum(IF r % 2 = 1 THEN 12 ELSE 6),
                swell_wave_direction |-> JNum(135)])
     EXCEPT !.src = r]

SunriseOf(r, b) == [src |-> r, results |-> [sunrise |-> b + 6]]

TidesOf(r, b) ==
    [src |-> r,
     predictions |->
         [list |-> <<[t |-> [date |-> b \div 24, h |-> "05", m |-> "45"], type |-> "H"],
                     [t |-> [date |-> b \div 24, h |-> "11", m |-> "50"], type |-> "L"]>>]]

\* The latest reading, in tenths of a degree.
WaterTempOf(r) == [src |-> r, data |-> <<[v |-> 410 + r]>>]

\* What fetch f of run r can settle to.  fetchWeather and fetchSunrise rethrow
\* a failure; the other three catch it and return null.
Outcomes(r, f) ==
    LET b == (today + 1) * 24 IN
    CASE f = "weather" -> {WeatherOf(r, b), WeatherNoCodeOf(r, b), Rejected}
      [] f = "sunrise" -> {SunriseOf(r, b), Rejected}
      [] f = "noaaTides" -> {TidesOf(r, b), NullData}
      [] f = "waterTemp" -> {WaterTempOf(r), NullData}
      [] f = "marine" -> {MarineOf(r, b), NullData}

showLoading(d) == [d EXCEPT !.panel = "loading"]
showError(d) == [d EXCEPT !.panel = "error"]
showContent(d) == [d EXCEPT !.panel = "content"]

ErrorMessage == "Failed to load forecast data. Please try again."

\* calculateAllScores on state st: [threw, state].  A scorer that throws leaves
\* the assignments made before it in place.  The three stages, last first:
\* the cycle score and the recommendation,
ScoreCycle(st, surfScoreData, cycleData) ==
    IF cycleData.threw THEN [threw |-> TRUE, state |-> st]
    ELSE [threw |-> FALSE,
          state |-> [st EXCEPT
                        !.scores.cycle = cycleData.score,
                        !.cycleData = cycleData,
                        !.recommendation =
                            getRecommendation([st.scores EXCEPT !.cycle = cycleData.score],
                                              surfScoreData, cycleData)]]

\* the photo score,
ScorePhoto(st, surfScoreData, photoData) ==
    IF photoData.threw THEN [threw |-> TRUE, state |-> st]
    ELSE ScoreCycle([st EXCEPT !.scores.photo = photoData.score, !.photoData = photoData],
                    surfScoreData, calculateCycleScore(st.weather))

\* the surf score.
ScoreSurf(st, surfScoreData) ==
    IF surfScoreData.threw THEN [threw |-> TRUE, state |-> st]
    ELSE ScorePhoto([st EXCEPT !.scores.surf = surfScoreData.score,
                               !.surfScoreData = surfScoreData],
                    surfScoreData, calculatePhotoScore(st.weather, st.sunrise))

calculateAllScores(st) == ScoreSurf(st, calculateSurfScore(st.marineData, st.weather))

\* updateUI: what it writes to the cards, and its one write to state.
updateUIState(st) ==
    IF ~IsNull(st.waterTempData) /\ Has(st.waterTempData, "data")
          /\ Len(st.waterTempData.data) > 0
    THEN [st EXCEPT !.waterTempNoaa = JNum(RoundDiv(st.waterTempData.data[1].v, 10))]
    ELSE st

updateUICards(st, r) ==
    [run |-> r, scores |-> st.scores, recommendation |-> st.recommendation,
     weather |-> st.weather.src]

\* loadAllData up to its await: showLoading, then the five fetches are started.
loadAllData(r) ==
    /\ runs[r].pc = "idle"
    /\ \A q \in 1..(r - 1) : runs[q].pc # "idle"
    /\ display' = showLoading(display)
    /\ runs' = [runs EXCEPT ![r].pc = "awaiting",
                            ![r].startedDuring = {q \in 1..MaxRuns : runs[q].pc = "awaiting"}]
    /\ UNCHANGED <<today, call, ret, state, errors>>

\* The number of runs that have ended.
EndedRuns == Cardinality({q \in 1..MaxRuns : runs[q].pc \in {"done", "failed"}})

\* The catch block with showContent in the place of showError.
CatchShowsContent(r, got, st, scored) ==
    /\ state' = st
    /\ display' = showContent(display)
    /\ errors' = Append(errors, [run |-> r, text |-> ErrorMessage])
    /\ runs' = [runs EXCEPT ![r].pc = "failed", ![r].got = got, ![r].scored = scored,
                            ![r].endedAt = EndedRuns + 1]

\* The catch block of loadAllData.
Catch(r, got, st, scored) ==
    /\ state' = st
    /\ display' = showError(display)
    /\ errors' = Append(errors, [run |-> r, text |-> ErrorMessage])
    /\ runs' = [runs EXCEPT ![r].pc = "failed", ![r].got = got, ![r].scored = scored,
                            ![r].endedAt = EndedRuns + 1]

\* The continuation of a run that drops its results when a newer run has been
\* started in the meantime.
FinishUnlessStale(r, got, res) ==
    IF res.threw
    THEN Catch(r, got, res.state, res.state.scores)
    ELSE IF \E q \in (r + 1)..MaxRuns : runs[q].pc # "idle"
    THEN /\ UNCHANGED <<state, display, errors>>
         /\ runs' = [runs EXCEPT ![r].pc = "done", ![r].got = got,
                                 ![r].scored = res.state.scores,
                                 ![r].endedAt = EndedRuns + 1]
    ELSE /\ state' = updateUIState(res.state)
         /\ display' = [showContent(display) EXCEPT !.ui = updateUICards(res.state, r)]
         /\ errors' = errors
         /\ runs' = [runs EXCEPT ![r].pc = "done", ![r].got = got,
                                 ![r].scored = res.state.scores,
                                 ![r].endedAt = EndedRuns + 1]

\* loadAllData after calculateAllScores returned res: updateUI and showContent,
\* or the catch block.
Finish(r, got, res) ==
    IF res.threw
    THEN Catch(r, got, res.state, res.state.scores)
    ELSE /\ state' = updateUIState(res.state)
         /\ display' = [showContent(display) EXCEPT !.ui = updateUICards(res.state, r)]
         /\ errors' = errors
         /\ runs' = [runs EXCEPT ![r].pc = "done", ![r].got = got,
                                 ![r].scored = res.state.scores,
                                 ![r].endedAt = EndedRuns + 1]

\* loadAllData after its await, all five promises fulfilled with got.
Resume(r, got) ==
    Finish(r, got,
           calculateAllScores([state EXCEPT !.weather = got["weather"],
                                            !.sunrise = got["sunrise"],
                                            !.noaaTides = got["noaaTides"],
                                            !.waterTempData = got["waterTemp"],
                                            !.marineData = got["marine"]]))

\* The settling of a fetch under Promise.allSettled: the run waits for all
\* five and goes on with null in the place of a failed one.
SettledAfterAll(r, f, o, got) ==
    IF \A g \in Fetches : got[g] # Pending
    THEN LET value(g) == IF got[g] = Rejected THEN NullData ELSE got[g] IN
         Finish(r, got,
                calculateAllScores([state EXCEPT !.weather = value("weather"),
                                                 !.sunrise = value("sunrise"),
                                                 !.noaaTides = value("noaaTides"),
                                                 !.waterTempData = value("waterTemp"),
                                                 !.marineData = value("marine")]))
    ELSE /\ runs' = [runs EXCEPT ![r].got = got]
         /\ UNCHANGED <<state, display, errors>>

\* What the settling of fetch f to o does to run r, got being the run's five
\* results with it.
Settled(r, f, o, got) ==
    IF o = Rejected
    THEN Catch(r, got, state, NullData)
    ELSE IF \A g \in Fetches : got[g] # Pending
    THEN Resume(r, got)
    ELSE /\ runs' = [runs EXCEPT ![r].got = got]
         /\ UNCHANGED <<state, display, errors>>

\* Fetch f of run r settles to outcome o.  A rejection rejects Promise.all at
\* once and the run goes to its catch block; the fulfilment of the last of the
\* five resumes the run; both continue in the same turn of the event loop.
Settle(r, f, o) ==
    /\ runs[r].pc = "awaiting"
    /\ runs[r].got[f] = Pending
    /\ Settled(r, f, o, [runs[r].got EXCEPT ![f] = o])
    /\ UNCHANGED <<today, call, ret>>

\* document DOMContentLoaded: the first run.
DOMContentLoaded == loadAllData(1)

\* window.refreshData: a further run, whatever the earlier ones are doing.
refreshData == \E r \in 2..MaxRuns : loadAllData(r)

fetchWeather == \E r \in 1..MaxRuns : \E o \in Outcomes(r, "weather") : Settle(r, "weather", o)
fetchSunrise == \E r \in 1..MaxRuns : \E o \in Outcomes(r, "sunrise") : Settle(r, "sunrise", o)
fetchNoaaTides == \E r \in 1..MaxRuns : \E o \in Outcomes(r, "noaaTides") : Settle(r, "noaaTides", o)
fetchWaterTemp == \E r \in 1..MaxRuns : \E o \in Outcomes(r, "waterTemp") : Settle(r, "waterTemp", o)
fetchMarineData == \E r \in 1..MaxRuns : \E o \in Outcomes(r, "marine") : Settle(r, "marine", o)

Init ==
    /\ today = 0
    /\ call = NoCall
    /\ ret = NoCall
    /\ AppAtRest

Next ==
    \/ DOMContentLoaded
    \/ refreshData
    \/ fetchWeather
    \/ fetchSunrise
    \/ fetchNoaaTides
    \/ fetchWaterTemp
    \/ fetchMarineData

Spec == Init /\ [][Next]_vars

\* Fetch f of run r was fulfilled (with a payload or, past a caught failure,
\* with null).
Fulfilled(r, f) == runs[r].got[f] # Pending /\ runs[r].got[f] # Rejected

RunEnded(r) == runs[r].pc \in {"done", "failed"}

ErrorsOf(r) == {i \in DOMAIN errors : errors[i].run = r}

\* The run that ended last.
LastEnded == CHOOSE r \in 1..MaxRuns : runs[r].endedAt = EndedRuns

\* Some run was started while an earlier one was awaiting its fetches, and
\* every run that was started has ended.
OverlappedAndEnded ==
    /\ \E r \in 1..MaxRuns : runs[r].startedDuring # {}
    /\ \A r \in 1..MaxRuns : runs[r].pc # "awaiting"

\* The datasets, the scores and the recommendation in state are those run r
\* wrote.
StateWrittenBy(r) ==
    /\ state.weather = runs[r].got["weather"]
    /\ state.sunrise = runs[r].got["sunrise"]
    /\ state.noaaTides = runs[r].got["noaaTides"]
    /\ state.waterTempData = runs[r].got["waterTemp"]
    /\ state.marineData = runs[r].got["marine"]
    /\ state.weather.src = r
    /\ state.scores = runs[r].scored
    /\ state.recommendation = display.ui.recommendation

\* C15: once overlapping runs have all ended, the visible panel is the one the
\* run that ended last has shown (content, with the cards that run wrote, or
\* the error panel with that run's message last); when that run completed,
\* the datasets, the scores and the recommendation in state are the ones it
\* wrote, whether it is the older or the newer run.
C15_LastWriteWins ==
    OverlappedAndEnded =>
        LET last == LastEnded IN
        /\ runs[last].pc = "done" =>
              /\ display.panel = "content"
              /\ display.ui.run = last
              /\ display.ui.scores = runs[last].scored
              /\ StateWrittenBy(last)
        /\ runs[last].pc = "failed" =>
              /\ display.panel = "error"
              /\ errors[Len(errors)].run = last

\* C15 witness: run 2 was started while run 1 was awaiting, both completed,
\* run 1 last, and state and cards are those of run 1.
C15_Witness ==
    /\ 1 \in runs[2].startedDuring
    /\ runs[1].pc = "done"
    /\ runs[2].pc = "done"
    /\ runs[1].endedAt > runs[2].endedAt
    /\ state.weather.src = 1
    /\ display.ui.run = 1
    /\ state.scores # runs[2].scored

\* The weather, the marine data and the three scores in state are those of
\* run r.
StateOfOneRun(r) ==
    /\ runs[r].pc = "done"
    /\ state.weather = runs[r].got["weather"]
    /\ state.weather.src = r
    /\ state.marineData = runs[r].got["marine"]
    /\ state.scores = runs[r].scored

\* The scores in state are the scores of the datasets in state.
ScoresOfCurrentData ==
    /\ state.scores.surf = calculateSurfScore(state.marineData, state.weather).score
    /\ state.scores.photo = calculatePhotoScore(state.weather, state.sunrise).score
    /\ state.scores.cycle = calculateCycleScore(state.weather).score

\* C16: whenever the content panel is visible, state.weather, state.marineData
\* and the three scores come from one run, the scores are those of the
\* datasets in state, and the recommendation, in state and on the cards, is
\* getRecommendation of the scores in state.
C16_ContentIsConsistent ==
    display.panel = "content" =>
        /\ \E r \in 1..MaxRuns : StateOfOneRun(r) /\ display.ui.run = r
        /\ ScoresOfCurrentData
        /\ state.recommendation =
              getRecommendation(state.scores, state.surfScoreData, state.cycleData)
        /\ display.ui.scores = state.scores
        /\ display.ui.recommendation = state.recommendation

\* C16 witness: content is visible, written by a run that ended after another
\* run had thrown part-way through scoring.
C16_Witness ==
    /\ display.panel = "content"
    /\ \E r, q \in 1..MaxRuns :
          /\ runs[r].pc = "failed"
          /\ runs[r].scored # NullData
          /\ runs[q].pc = "done"
          /\ r \in runs[q].startedDuring \/ q \in runs[r].startedDuring
          /\ runs[r].endedAt < runs[q].endedAt
          /\ runs[r].scored # state.scores

\* The run whose fetch returned dataset d (0 for null).
SrcOf(d) == IF IsNull(d) THEN 0 ELSE d.src

\* The runs whose datasets are in state.
RunsInState ==
    {SrcOf(state.weather), SrcOf(state.sunrise), SrcOf(state.noaaTides),
     SrcOf(state.waterTempData), SrcOf(state.marineData)}

\* C17: a run whose sunrise fetch failed has ended in the error state with
\* one error message, has written none of its datasets to state and has
\* computed no scores, whatever its other four fetches returned.
C17_SunriseFailureIsFatal ==
    \A r \in 1..MaxRuns :
        runs[r].got["sunrise"] = Rejected =>
            /\ runs[r].pc = "failed"
            /\ Cardinality(ErrorsOf(r)) = 1
            /\ runs[r].scored = NullData
            /\ r \notin RunsInState
            /\ display.panel # "content" \/ display.ui.run # r
            /\ runs[r].endedAt = EndedRuns => display.panel \in {"error", "loading"}

\* C17 witness: the first run has failed on its sunrise fetch after its other
\* four fetches had succeeded, and state is as it was before the run.
C17_Witness ==
    /\ runs[1].got["sunrise"] = Rejected
    /\ \A f \in Fetches \ {"sunrise"} : Fulfilled(1, f) /\ runs[1].got[f] # NullData
    /\ runs[1].got["weather"] = WeatherOf(1, (today + 1) * 24)
    /\ runs[1].pc = "failed"
    /\ display.panel = "error"
    /\ state = InitState

\* C4 (as claimed): a run whose weather fetch succeeded ends showing content,
\* whichever of the tides, water temperature and marine fetches failed, with
\* the failed datasets null and surf score 0 when marine is null; a run whose
\* weather fetch failed ends in the error state with exactly one error message
\* and without having computed scores.
C4_OnlyWeatherIsFatal ==
    \A r \in 1..MaxRuns :
        /\ (RunEnded(r) /\ Fulfilled(r, "weather") /\ Fulfilled(r, "sunrise")) =>
              /\ runs[r].pc = "done"
              /\ runs[r].got["marine"] = NullData => runs[r].scored.surf = 0
        /\ runs[r].got["weather"] = Rejected =>
              /\ runs[r].pc = "failed"
              /\ Cardinality(ErrorsOf(r)) = 1
              /\ runs[r].scored = NullData

=============================================================================
